---- MODULE Spec2Model ----
(***************************************************************************)
(* Figmux: the privileged coordinator of src/src/main.js as a state        *)
(* machine.  Module-level variables of main.js are the VARIABLES; every    *)
(* IPC handler, webContents listener, window listener and timer callback   *)
(* is one action.  Nested calls (closeTab -> createTab -> activateTab) are *)
(* threaded through a record `s` of the coordinator's mutable state so     *)
(* that one action is one run-to-completion handler.                       *)
(*                                                                         *)
(* Strings are TLA+ strings; startsWith / endsWith / indexOf are computed  *)
(* character by character.  `new URL(input)` is modelled for the inputs of *)
(* the URL universe below (lower case, no dot segments, no backslashes,    *)
(* no IPv6 literals): scheme, optional userinfo, host, optional port,      *)
(* path, optional query and fragment.                                      *)
(***************************************************************************)
EXTENDS Integers, Sequences, FiniteSets, TLC

(***************************************************************************)
(* Program constants (main.js lines 14-27).                                *)
(***************************************************************************)
FIGMA_HOME == "https://www.figma.com"
FIGMA_RECENTS == "https://www.figma.com/files/recent"
GOOGLE_OAUTH_HOSTS == {"accounts.google.com", "oauth2.googleapis.com", "apis.google.com"}
GOOGLE_AUTH_RELAY_SUFFIX == ".googleusercontent.com"
FIGMA_AUTH_PATH_PREFIXES == <<"/login", "/signup", "/oauth">>
ABOUT_BLANK == "about:blank"
DEFAULT_TITLE == "Figma"
TITLEBAR_HEIGHT == 36
WINDOW_CONTROLS_INSET == 112

\* JavaScript null / undefined for a string-valued slot (an id or a url).
Null == "<null>"
Undefined == "<undefined>"

(***************************************************************************)
(* String helpers (String.prototype.startsWith / endsWith / indexOf).      *)
(***************************************************************************)
startsWith(s, p) == Len(s) >= Len(p) /\ SubSeq(s, 1, Len(p)) = p

endsWith(s, p) == Len(s) >= Len(p) /\ SubSeq(s, Len(s) - Len(p) + 1, Len(s)) = p

\* Smallest i >= from with s[i] in chars, or Len(s) + 1 when there is none.
RECURSIVE firstOf(_, _, _)
firstOf(s, chars, from) ==
  IF from > Len(s) THEN Len(s) + 1
  ELSE IF SubSeq(s, from, from) \in chars THEN from
  ELSE firstOf(s, chars, from + 1)

\* Largest i <= upto with s[i] = ch, or 0 when there is none.
RECURSIVE lastIndexOf(_, _, _)
lastIndexOf(s, ch, upto) ==
  IF upto < 1 THEN 0
  ELSE IF SubSeq(s, upto, upto) = ch THEN upto
  ELSE lastIndexOf(s, ch, upto - 1)

\* First position at or after `from` that holds no "/".
RECURSIVE skipSlashes(_, _)
skipSlashes(s, from) ==
  IF from <= Len(s) /\ SubSeq(s, from, from) = "/" THEN skipSlashes(s, from + 1) ELSE from

(***************************************************************************)
(* URL Classifier                                                          *)
(***************************************************************************)
NoUrl == [ok |-> FALSE, protocol |-> "", hostname |-> "", pathname |-> ""]

\* new URL(input): protocol, hostname and pathname of an absolute URL with
\* an authority; NoUrl where the constructor throws.  The parser's steps, each
\* handing on the positions found so far.
urlParts(input, hostFrom, hostTo, authEnd, pathEnd) ==
  IF hostTo < hostFrom THEN NoUrl
  ELSE [ok |-> TRUE, protocol |-> "https:",
        hostname |-> SubSeq(input, hostFrom, hostTo),
        pathname |-> IF pathEnd = authEnd THEN "/" ELSE SubSeq(input, authEnd, pathEnd - 1)]

\* The host ends before the port's colon, when the authority has one.
urlHost(input, hostFrom, authEnd, portColon) ==
  urlParts(input, hostFrom, IF portColon < authEnd THEN portColon - 1 ELSE authEnd - 1,
           authEnd, firstOf(input, {"?", "#"}, authEnd))

\* The host starts after the userinfo's "@", when the authority has one.
urlUserinfo(input, hostStart, authEnd, at) ==
  IF at >= hostStart THEN urlHost(input, at + 1, authEnd, firstOf(input, {":"}, at + 1))
  ELSE urlHost(input, hostStart, authEnd, firstOf(input, {":"}, hostStart))

urlAuthority(input, hostStart, authEnd) ==
  urlUserinfo(input, hostStart, authEnd, lastIndexOf(input, "@", authEnd - 1))

urlScheme(input, colon) ==
  IF input \in {Null, Undefined} \/ colon > Len(input) \/ colon = 1
     \/ firstOf(input, {" ", "/", "?", "#"}, 1) < colon
    THEN NoUrl
  ELSE IF SubSeq(input, 1, colon) # "https:"
    THEN [ok |-> TRUE, protocol |-> SubSeq(input, 1, colon), hostname |-> "", pathname |-> ""]
  ELSE urlAuthority(input, skipSlashes(input, colon + 1),
                    firstOf(input, {"/", "?", "#"}, skipSlashes(input, colon + 1)))

parseUrl(input) == urlScheme(input, firstOf(input, {":"}, 1))

parseHttpsUrl(input) ==
  LET parsed == parseUrl(input)
  IN IF parsed.ok /\ parsed.protocol = "https:" THEN parsed ELSE NoUrl

isAboutBlankUrl(input) ==
  \/ input \in {"", Null, Undefined}
  \/ input = ABOUT_BLANK
  \/ startsWith(input, ABOUT_BLANK \o "#")

isGoogleAuthDomain(hostname) ==
  \/ hostname \in GOOGLE_OAUTH_HOSTS
  \/ hostname = "google.com"
  \/ endsWith(hostname, ".google.com")
  \/ endsWith(hostname, GOOGLE_AUTH_RELAY_SUFFIX)

isFigmaUrl(input) ==
  LET parsed == parseHttpsUrl(input)
  IN parsed.ok /\ (parsed.hostname = "figma.com" \/ endsWith(parsed.hostname, ".figma.com"))

\* Mutant: an auth path counts on any https host.
isOAuthUrlAnyHost(input) ==
  LET parsed == parseHttpsUrl(input)
  IN /\ parsed.ok
     /\ \/ isGoogleAuthDomain(parsed.hostname)
        \/ \E i \in 1..Len(FIGMA_AUTH_PATH_PREFIXES) :
             startsWith(parsed.pathname, FIGMA_AUTH_PATH_PREFIXES[i])

isOAuthUrl(input) ==
  LET parsed == parseHttpsUrl(input)
  IN /\ parsed.ok
     /\ \/ isGoogleAuthDomain(parsed.hostname)
        \/ /\ isFigmaUrl(input)
           /\ \E i \in 1..Len(FIGMA_AUTH_PATH_PREFIXES) :
                startsWith(parsed.pathname, FIGMA_AUTH_PATH_PREFIXES[i])

(***************************************************************************)
(* The URL universe the events draw from.                                  *)
(***************************************************************************)
U_FILE == "https://www.figma.com/file/abc"
U_LOGIN == "https://www.figma.com/login"
U_APEX_OAUTH == "https://figma.com/oauth/callback?code=1"
U_GOOGLE == "https://accounts.google.com/o/oauth2/auth"
U_RELAY == "https://x.googleusercontent.com/relay"
U_EXTERNAL == "https://example.com"
U_EVIL_LOGIN == "https://www.evil.com/login"
U_LOOKALIKE == "https://evilfigma.com/login"
U_SUFFIXED == "https://www.figma.com.evil.com/file/abc"
U_USERINFO == "https://figma.com@evil.com/login"
U_PORT == "https://user@www.figma.com:8443/signup"
U_HTTP == "http://www.figma.com/file/abc"
U_MAILTO == "mailto:team@figma.com"
U_GARBAGE == "not a url"
U_BLANK_FRAGMENT == "about:blank#login"

AllUrls ==
  { "", ABOUT_BLANK, U_BLANK_FRAGMENT, U_GARBAGE, U_MAILTO, U_HTTP,
    FIGMA_HOME, FIGMA_RECENTS, U_FILE, U_LOGIN, U_APEX_OAUTH, U_GOOGLE, U_RELAY,
    U_EXTERNAL, U_EVIL_LOGIN, U_LOOKALIKE, U_SUFFIXED, U_USERINFO, U_PORT }

\* The classifier applied once to every string the model passes to it.
Classified ==
  [u \in AllUrls \cup {Null, Undefined} |->
     [isHttps |-> parseHttpsUrl(u).ok, isFigmaUrl |-> isFigmaUrl(u),
      isOAuthUrl |-> isOAuthUrl(u), isAboutBlankUrl |-> isAboutBlankUrl(u)]]

isAllowedAuthOrFigmaUrl(input) ==
  Classified[input].isOAuthUrl \/ Classified[input].isFigmaUrl

\* Mutant: the referrer is not consulted.
shouldOpenAuthPopupNoReferrer(url, referrerUrl) ==
  Classified[url].isOAuthUrl \/ Classified[url].isAboutBlankUrl

shouldOpenAuthPopup(url, referrerUrl) ==
  IF Classified[url].isOAuthUrl \/ Classified[url].isAboutBlankUrl THEN TRUE
  ELSE Classified[referrerUrl].isOAuthUrl /\ Classified[url].isFigmaUrl

canRestoreUrl(input) ==
  Classified[input].isHttps /\ (Classified[input].isFigmaUrl \/ Classified[input].isOAuthUrl)

(***************************************************************************)
(* Bounds of the model.                                                    *)
(***************************************************************************)
\* createTab is not requested by an event while tabOrder holds MaxTabs ids.
MaxTabs == 3
\* nextTabId is not drawn by an event once tabIdCounter has reached MaxId.
MaxId == 3
\* No further auth popup is requested while MaxPopups popup windows are open.
MaxPopups == 2
\* Most deferred re-layouts (setTimeout 0) pending at once.
MaxTicks == 1

(***************************************************************************)
(* State: the module-level variables of main.js, the snapshot file, the    *)
(* open auth popup windows, and `last`, the record of the handler that ran *)
(* last (its inputs, the state it started from, and its outward effects).  *)
(***************************************************************************)
VARIABLES
  pc,            \* "start" before app.whenReady, "running", "quit"
  platform,      \* process.platform
  mainWindow,    \* "none" (undefined), "live", "destroyed"
  shellReady,
  tabs,          \* Map id -> tab record
  tabOrder,      \* string[]
  activeTabId,   \* an id or Null
  tabIdCounter,
  timerArmed,    \* tabStateWriteTimer is pending
  disk,          \* contents of tabs-state.json
  popups,        \* open auth popup windows, in creation order
  last,          \* the handler that ran last: [h, pre, fx]
  held,          \* history: every id a tab of this process has held so far
  viewState,     \* the window's child views, view bounds, content size, pending re-layouts
  pendingTimers, \* number of persistence timers set and neither fired nor cleared
  renderer       \* the shell page's script: tab buttons, closingTabIds, its pending timeouts

vars == <<pc, platform, mainWindow, shellReady, tabs, tabOrder, activeTabId,
          tabIdCounter, timerArmed, disk, popups, last, held, viewState,
          pendingTimers, renderer>>

(***************************************************************************)
(* Small helpers.                                                          *)
(***************************************************************************)
Range(seq) == {seq[i] : i \in 1..Len(seq)}

Min(a, b) == IF a <= b THEN a ELSE b

\* JavaScript truthiness of a string-or-null value.
truthy(v) == v \notin {Null, Undefined, ""}

\* Array.prototype.indexOf, 1-based; 0 when absent (JavaScript's -1).
indexOf(seq, v) ==
  IF v \in Range(seq) THEN CHOOSE i \in 1..Len(seq) : seq[i] = v /\ \A j \in 1..(i - 1) : seq[j] # v
  ELSE 0

\* Array.prototype.splice(index, 1).
removeAt(seq, i) == SubSeq(seq, 1, i - 1) \o SubSeq(seq, i + 1, Len(seq))

\* Map.prototype.set / delete on a function with a finite domain.
mapSet(m, k, v) == [key \in DOMAIN m \cup {k} |-> IF key = k THEN v ELSE m[key]]

mapDelete(m, k) == [key \in DOMAIN m \ {k} |-> m[key]]

EmptyMap == [key \in {} |-> Null]

(***************************************************************************)
(* Tab ids: `tab-${tabIdCounter}` and Number(id.replace('tab-', '')).      *)
(***************************************************************************)
Digits == <<"0", "1", "2", "3", "4", "5", "6", "7", "8", "9">>

RECURSIVE numberToString(_)
numberToString(n) ==
  IF n < 10 THEN Digits[n + 1] ELSE numberToString(n \div 10) \o Digits[(n % 10) + 1]

isDigit(c) == \E d \in 1..10 : Digits[d] = c

digitValue(c) == (CHOOSE d \in 1..10 : Digits[d] = c) - 1

\* Number(str) for a string of decimal digits; NaN for every other string
\* of the id universe.  Number('') is 0.
NaN == -1

RECURSIVE stringToNumber(_, _)
stringToNumber(str, acc) ==
  IF str = "" THEN acc
  ELSE IF ~isDigit(SubSeq(str, 1, 1)) THEN NaN
  ELSE stringToNumber(SubSeq(str, 2, Len(str)), 10 * acc + digitValue(SubSeq(str, 1, 1)))

\* First index of `pat` in `s`, 0 when absent.
RECURSIVE indexOfString(_, _, _)
indexOfString(s, pat, from) ==
  IF from + Len(pat) - 1 > Len(s) THEN 0
  ELSE IF SubSeq(s, from, from + Len(pat) - 1) = pat THEN from
  ELSE indexOfString(s, pat, from + 1)

\* String.prototype.replace(pat, '') with a string pattern: first occurrence.
removeFirst(s, pat) ==
  LET i == indexOfString(s, pat, 1)
  IN IF i = 0 THEN s ELSE SubSeq(s, 1, i - 1) \o SubSeq(s, i + Len(pat), Len(s))

tabIdOf(counter) == "tab-" \o numberToString(counter)

idSuffix(id) == stringToNumber(removeFirst(id, "tab-"), 0)

(***************************************************************************)
(* The coordinator state threaded through nested calls.  `fx` collects the *)
(* outward effects of the running handler.                                 *)
(***************************************************************************)
\* What one handler does besides changing the module state: `emits` counts the
\* tabs:stateChanged pushes, `sent` lists every message pushed to the shell,
\* `views` the addChildView / removeChildView calls on the window.
NoFx == [emits |-> 0, armed |-> 0, ext |-> <<>>, loads |-> <<>>, ret |-> Null, sent |-> <<>>,
         views |-> <<>>]

Cur ==
  [win |-> mainWindow, ready |-> shellReady, tabs |-> tabs, order |-> tabOrder,
   active |-> activeTabId, counter |-> tabIdCounter, timer |-> timerArmed, fx |-> NoFx,
   view |-> viewState, pending |-> pendingTimers]

windowAlive(s) == s.win = "live"

(***************************************************************************)
(* The window's content view.  A tab's view is named by the tab's id while *)
(* the tab's record is in `tabs`; a view whose record was deleted or       *)
(* replaced while it was a child of the window stays a child under the     *)
(* name ORPHAN (one name for all such views).                              *)
(***************************************************************************)
ORPHAN == "<orphan>"

\* windowOptions.width and height of createMainWindow.
DefaultSize == <<1360, 860>>

\* `ticks` holds one entry per deferred re-layout that is pending; the entry
\* remembers which tab was active when the re-layout was queued.
NoViews == [children |-> <<>>, bounds |-> EmptyMap, size |-> DefaultSize, ticks |-> <<>>]

Max(a, b) == IF a >= b THEN a ELSE b

without(seq, v) == SelectSeq(seq, LAMBDA c : c # v)

removeChildView(s, view) ==
  [s EXCEPT !.view.children = without(@, view), !.fx.views = Append(@, <<"remove", view>>)]

\* Adding a view that is a child already moves it to the top.
addChildView(s, view) ==
  [s EXCEPT !.view.children = Append(without(@, view), view),
            !.fx.views = Append(@, <<"add", view>>)]

\* Mutant: the height is not clamped at zero.
activeBoundsUnclamped(size) ==
  [x |-> 0, y |-> TITLEBAR_HEIGHT, width |-> size[1], height |-> size[2] - TITLEBAR_HEIGHT]

\* view.setBounds of updateActiveTabBounds, from mainWindow.getContentSize().
activeBounds(size) ==
  [x |-> 0, y |-> TITLEBAR_HEIGHT, width |-> size[1],
   height |-> Max(0, size[2] - TITLEBAR_HEIGHT)]

updateActiveTabBounds(s) ==
  IF ~windowAlive(s) \/ ~truthy(s.active) THEN s
  ELSE IF s.active \notin DOMAIN s.tabs THEN s
  ELSE [s EXCEPT !.view.bounds =
          [id \in DOMAIN @ \cup {s.active} |->
             IF id = s.active THEN activeBounds(s.view.size) ELSE @[id]]]

\* The second updateActiveTabBounds runs in a later turn (setTimeout 0).
queueActiveTabBoundsSync(s) ==
  [updateActiveTabBounds(s) EXCEPT !.view.ticks = Append(@, s.active)]

\* The record of `id` leaves `tabs` (tabs.delete) or is replaced by a record
\* with a new view (tabs.set): the old view keeps no name.
forgetView(view, id) ==
  [view EXCEPT
     !.children = IF id \in Range(@) THEN Append(without(without(@, id), ORPHAN), ORPHAN) ELSE @,
     !.bounds = [k \in DOMAIN @ \ {id} |-> @[k]]]

\* clearTimeout(tabStateWriteTimer): cancels the timer the variable names,
\* if that timer is still pending.
clearTimeout(s) ==
  IF s.timer THEN [s EXCEPT !.timer = FALSE, !.pending = @ - 1] ELSE s

\* new BrowserWindow(windowOptions): a content view without children.
createMainWindow(s) ==
  [s EXCEPT !.win = "live", !.view.children = <<>>, !.view.size = DefaultSize]

\* mainWindow 'closed' (959-962); the window's content view goes with it.
windowClosed(s) ==
  [clearTimeout(s) EXCEPT !.win = "destroyed", !.ready = FALSE, !.view.children = <<>>]

toTabSnapshot(tab, active) ==
  [id |-> tab.id, title |-> tab.title, url |-> tab.url, isLoading |-> tab.isLoading,
   canGoBack |-> tab.canGoBack, canGoForward |-> tab.canGoForward,
   isActive |-> tab.id = active]

\* tabOrder.map(toTabSnapshot).filter(Boolean), over the ids with a record.
snapshotTabs(m, known, active) ==
  [i \in 1..Len(known) |-> toTabSnapshot(m[known[i]], active)]

getTabsSnapshot(m, order, active) ==
  [activeTabId |-> active,
   tabs |-> snapshotTabs(m, SelectSeq(order, LAMBDA id : id \in DOMAIN m), active)]

message(channel, body) == [channel |-> channel, body |-> body]

\* Mutant: the push does not wait for the shell to be ready.
emitTabsStateUngated(s) ==
  IF ~windowAlive(s) THEN s
  ELSE [s EXCEPT !.fx.emits = @ + 1,
                 !.fx.sent = Append(@, message("tabs:stateChanged",
                                               getTabsSnapshot(s.tabs, s.order, s.active)))]

emitTabsState(s) ==
  IF ~windowAlive(s) \/ ~s.ready THEN s
  ELSE [s EXCEPT !.fx.emits = @ + 1,
                 !.fx.sent = Append(@, message("tabs:stateChanged",
                                               getTabsSnapshot(s.tabs, s.order, s.active)))]

\* The body is {isMaximized}, which no handler of the model reads.
emitWindowState(s) ==
  IF ~windowAlive(s) \/ ~s.ready THEN s
  ELSE [s EXCEPT !.fx.sent = Append(@, message("window:stateChanged", "isMaximized"))]

\* clearTimeout(tabStateWriteTimer) then setTimeout(..., 300).
queuePersistTabState(s) ==
  [clearTimeout(s) EXCEPT !.timer = TRUE, !.pending = @ + 1, !.fx.armed = @ + 1]

routeExternal(s, input) == [s EXCEPT !.fx.ext = Append(@, input)]

loadURL(s, id, url) == [s EXCEPT !.fx.loads = Append(@, <<id, url>>)]

\* Mutant: no guard on a missing target.
activateTabAnyId(s, tabId) ==
  IF ~windowAlive(s) THEN s
  ELSE IF s.active = tabId THEN s
  ELSE queuePersistTabState(emitTabsState([s EXCEPT !.active = tabId]))

\* Lines 674-683: the previous view is removed when the previous active id
\* has a record, then the target becomes active and its view is added.
activateTabShow(s, tabId) ==
  queuePersistTabState(emitTabsState(updateActiveTabBounds(
    addChildView([s EXCEPT !.active = tabId], tabId))))

activateTab(s, tabId) ==
  IF ~windowAlive(s) THEN s
  ELSE IF tabId \notin DOMAIN s.tabs THEN s
  ELSE IF s.active = tabId THEN s
  ELSE activateTabShow(IF s.active \in DOMAIN s.tabs THEN removeChildView(s, s.active) ELSE s,
                       tabId)

newTab(id, safeUrl) ==
  [id |-> id, title |-> DEFAULT_TITLE, url |-> safeUrl, isLoading |-> FALSE,
   canGoBack |-> FALSE, canGoForward |-> FALSE]

\* Mutant: the new tab is activated whatever `activate` says.
createTabShowAlways(s, safeUrl, activate, id) ==
  [queuePersistTabState(emitTabsState(loadURL(activateTab(s, id), id, safeUrl)))
   EXCEPT !.fx.ret = id]

\* createTab({url, activate, id}); Undefined for an omitted url or id.  The
\* default `id = nextTabId()` is evaluated before the window guard.
\* Lines 710-718, on the state holding the new tab: activation, loadURL,
\* emitTabsState, queuePersistTabState, return id.
createTabShow(s, safeUrl, activate, id) ==
  [queuePersistTabState(emitTabsState(
     loadURL(IF activate \/ ~truthy(s.active) THEN activateTab(s, id) ELSE s, id, safeUrl)))
   EXCEPT !.fx.ret = id]

\* Lines 687-708, with the parameter defaults applied: the window guard,
\* safeUrl, tabs.set and tabOrder.push.
createTabBody(s, url, activate, id) ==
  IF ~windowAlive(s) THEN [s EXCEPT !.fx.ret = Null]
  ELSE createTabShow(
         [s EXCEPT !.tabs = mapSet(@, id, newTab(id, IF Classified[url].isHttps THEN url ELSE FIGMA_HOME)),
                   !.order = Append(@, id),
                   !.view = forgetView(@, id)],
         IF Classified[url].isHttps THEN url ELSE FIGMA_HOME, activate, id)

createTab(s, url, activate, id) ==
  createTabBody(IF id = Undefined THEN [s EXCEPT !.counter = @ + 1] ELSE s,
                IF url = Undefined THEN FIGMA_RECENTS ELSE url,
                activate,
                IF id = Undefined THEN tabIdOf(s.counter + 1) ELSE id)

\* Lines 730-742: the id leaves tabOrder, the view of the active tab is
\* removed from a live window, the record is deleted.
closeTabRemove(s, tabId, order1) ==
  [s EXCEPT !.order = order1,
            !.tabs = mapDelete(@, tabId),
            !.view = forgetView(IF s.active = tabId /\ windowAlive(s)
                                  THEN [@ EXCEPT !.children = without(@, tabId)] ELSE @,
                                tabId),
            !.fx.views = IF s.active = tabId /\ windowAlive(s)
                           THEN Append(@, <<"remove", tabId>>) ELSE @]

\* Mutant: the last tab is closed without a replacement.
closeTabNoRefill(s, tabId) ==
  IF ~truthy(tabId) \/ tabId \notin DOMAIN s.tabs THEN s
  ELSE LET tabIndex == indexOf(s.order, tabId)
           order1 == IF tabIndex > 0 THEN removeAt(s.order, tabIndex) ELSE s.order
           s1 == closeTabRemove(s, tabId, order1)
           nextIndex == Min(tabIndex, Len(order1))
       IN IF Len(order1) = 0 THEN queuePersistTabState(emitTabsState([s1 EXCEPT !.active = Null]))
          ELSE IF s.active = tabId
            THEN activateTab(s1, IF nextIndex >= 1 THEN order1[nextIndex] ELSE Undefined)
          ELSE queuePersistTabState(emitTabsState(s1))

\* Mutant: the replacement of the last tab opens at the site's home page.
closeTabRefillHome(s, tabId) ==
  IF ~truthy(tabId) \/ tabId \notin DOMAIN s.tabs THEN s
  ELSE LET tabIndex == indexOf(s.order, tabId)
           order1 == IF tabIndex > 0 THEN removeAt(s.order, tabIndex) ELSE s.order
           s1 == closeTabRemove(s, tabId, order1)
           nextIndex == Min(tabIndex, Len(order1))
       IN IF Len(order1) = 0
            THEN createTab([s1 EXCEPT !.active = Null], FIGMA_HOME, TRUE, Undefined)
          ELSE IF s.active = tabId
            THEN activateTab(s1, IF nextIndex >= 1 THEN order1[nextIndex] ELSE Undefined)
          ELSE queuePersistTabState(emitTabsState(s1))

closeTab(s, tabId) ==
  IF ~truthy(tabId) THEN s
  ELSE IF tabId \notin DOMAIN s.tabs THEN s
  ELSE LET tabIndex == indexOf(s.order, tabId)
           order1 == IF tabIndex > 0 THEN removeAt(s.order, tabIndex) ELSE s.order
           isActive == s.active = tabId
           s1 == closeTabRemove(s, tabId, order1)
           nextIndex == Min(tabIndex, Len(order1))
       IN IF Len(order1) = 0
            THEN createTab([s1 EXCEPT !.active = Null], FIGMA_RECENTS, TRUE, Undefined)
          ELSE IF isActive
            THEN activateTab(s1, IF nextIndex >= 1 THEN order1[nextIndex] ELSE Undefined)
          ELSE queuePersistTabState(emitTabsState(s1))

cycleTabs(s, reverse) ==
  IF Len(s.order) < 2 \/ ~truthy(s.active) THEN s
  ELSE LET currentIndex == indexOf(s.order, s.active)
           offset == IF reverse THEN -1 ELSE 1
           nextIndex == (((currentIndex - 1) + offset + Len(s.order)) % Len(s.order)) + 1
       IN IF currentIndex = 0 THEN s ELSE activateTab(s, s.order[nextIndex])

(***************************************************************************)
(* Persistence: the snapshot file and restoration.                         *)
(* A file is [kind, activeTabId, tabs]: kind "missing" (readFileSync       *)
(* throws), "invalid" (JSON.parse throws), "notabs" (parsed.tabs is no     *)
(* array) or "json".  JSON.stringify followed by JSON.parse returns the    *)
(* strings, null and arrays of the payload unchanged, so a "json" file     *)
(* holds the payload's activeTabId and its [id, url, title] entries.       *)
(***************************************************************************)
NoFile == [kind |-> "missing", activeTabId |-> Null, tabs |-> <<>>]

entry(id, url) == [id |-> id, url |-> url, title |-> DEFAULT_TITLE]

jsonFile(active, entries) == [kind |-> "json", activeTabId |-> active, tabs |-> entries]

\* The payload built by the timer callback of queuePersistTabState.
payload(s) ==
  LET known == SelectSeq(s.order, LAMBDA id : id \in DOMAIN s.tabs)
  IN jsonFile(s.active,
              [i \in 1..Len(known) |->
                 [id |-> s.tabs[known[i]].id, url |-> s.tabs[known[i]].url,
                  title |-> s.tabs[known[i]].title]])

\* The loop of loadSavedTabState over parsed.tabs: the restorable entries
\* and the advanced tabIdCounter.
\* Lines 797-800: Math.max(tabIdCounter, suffix) for a finite suffix.
\* Mutant: the counter is not advanced past the restored ids.
advanceCounterNever(counter, suffix) == counter

advanceCounter(counter, suffix) ==
  IF suffix # NaN /\ suffix > counter THEN suffix ELSE counter

\* Mutant: entries are restored whatever their address.
RECURSIVE restoredEntriesUnfiltered(_, _, _)
restoredEntriesUnfiltered(entries, acc, counter) ==
  IF entries = <<>> THEN [tabs |-> acc, counter |-> counter]
  ELSE IF Head(entries).id \in {Null, Undefined} \/ Head(entries).url \in {Null, Undefined}
    THEN restoredEntriesUnfiltered(Tail(entries), acc, counter)
  ELSE restoredEntriesUnfiltered(Tail(entries),
                       Append(acc, [id |-> Head(entries).id, url |-> Head(entries).url]),
                       IF idSuffix(Head(entries).id) # NaN /\ idSuffix(Head(entries).id) > counter
                         THEN idSuffix(Head(entries).id) ELSE counter)

\* typeof v === 'string', for the values a parsed file can hold.
isString(v) == v \notin {Null, Undefined}

RECURSIVE restoredEntries(_, _, _)
restoredEntries(entries, acc, counter) ==
  IF entries = <<>> THEN [tabs |-> acc, counter |-> counter]
  ELSE IF ~isString(Head(entries).id) \/ ~isString(Head(entries).url)
    THEN restoredEntries(Tail(entries), acc, counter)
  ELSE IF ~canRestoreUrl(Head(entries).url)
    THEN restoredEntries(Tail(entries), acc, counter)
  ELSE restoredEntries(Tail(entries),
                       Append(acc, [id |-> Head(entries).id, url |-> Head(entries).url]),
                       advanceCounter(counter, idSuffix(Head(entries).id)))

\* loadSavedTabState(): [ok, activeTabId, tabs, counter]; ok = FALSE is null.
loadSavedTabState(s, file) ==
  IF file.kind # "json"
    THEN [ok |-> FALSE, activeTabId |-> Null, tabs |-> <<>>, counter |-> s.counter]
  ELSE LET r == restoredEntries(file.tabs, <<>>, s.counter)
       IN [ok |-> TRUE, activeTabId |-> file.activeTabId, tabs |-> r.tabs, counter |-> r.counter]

RECURSIVE createRestored(_, _)
createRestored(s, entries) ==
  IF entries = <<>> THEN s
  ELSE createRestored(createTab(s, Head(entries).url, FALSE, Head(entries).id), Tail(entries))

\* Lines 823-827, on the state holding the restored tabs.
activateRestored(s, savedActiveId) ==
  IF truthy(savedActiveId) /\ savedActiveId \in DOMAIN s.tabs THEN activateTab(s, savedActiveId)
  ELSE activateTab(s, s.order[1])

\* Lines 814-827, on the value loadSavedTabState returned.
restoreLoaded(s, state) ==
  IF ~state.ok \/ Len(state.tabs) = 0
    THEN createTab([s EXCEPT !.counter = state.counter], FIGMA_RECENTS, TRUE, Undefined)
  ELSE activateRestored(createRestored([s EXCEPT !.counter = state.counter], state.tabs),
                        state.activeTabId)

restoreTabs(s, file) == restoreLoaded(s, loadSavedTabState(s, file))

(***************************************************************************)
(* Inputs of the events.                                                   *)
(***************************************************************************)
\* Snapshot files found at the first start.
InitialFiles ==
  { NoFile,
    [kind |-> "invalid", activeTabId |-> Null, tabs |-> <<>>],
    [kind |-> "notabs", activeTabId |-> Null, tabs |-> <<>>],
    jsonFile(Null, <<>>),
    jsonFile("tab-2", <<entry("tab-1", U_FILE), entry("tab-2", U_EXTERNAL)>>),
    jsonFile("tab-2", <<entry("tab-1", U_FILE), entry("tab-2", U_LOGIN)>>),
    jsonFile("tab-1", <<entry("tab-1", U_FILE), entry("tab-1", U_GOOGLE)>>),
    jsonFile("home", <<entry("home", FIGMA_RECENTS)>>),
    jsonFile("tab-1", <<entry("tab-1", U_EXTERNAL), entry(Null, U_FILE), entry("tab-3", Null)>>),
    jsonFile("tab-1", <<entry("tab-1", U_EXTERNAL), entry("tab-2", U_FILE)>>) }

\* The files the tab lifecycle runs start from: none, a valid one, one that
\* repeats an id, one whose id is not of the counter's form.
StartFiles ==
  { NoFile,
    jsonFile("tab-2", <<entry("tab-1", U_FILE), entry("tab-2", U_EXTERNAL)>>),
    jsonFile("tab-1", <<entry("tab-1", U_FILE), entry("tab-1", U_GOOGLE)>>),
    jsonFile("home", <<entry("home", FIGMA_RECENTS)>>) }

\* The files the persistence runs start from: every way of having nothing
\* to restore, and a file mixing restorable and non-restorable addresses
\* whose saved active tab is not restorable.
PersistFiles ==
  { NoFile,
    [kind |-> "invalid", activeTabId |-> Null, tabs |-> <<>>],
    [kind |-> "notabs", activeTabId |-> Null, tabs |-> <<>>],
    jsonFile(Null, <<>>),
    jsonFile("tab-1", <<entry("tab-1", U_EXTERNAL), entry(Null, U_FILE), entry("tab-3", Null)>>),
    jsonFile("tab-1", <<entry("tab-1", U_EXTERNAL), entry("tab-2", U_FILE)>>) }

Platforms == {"linux", "darwin"}

\* Ids a Shell Bridge command may carry: those of the tabs and of the order,
\* the first id issued (closed at some point, or never restored), one that
\* is not of the counter's form, and null.
CommandIds == DOMAIN tabs \cup Range(tabOrder) \cup {tabIdOf(1), "home", Null}

NavUrls == {U_FILE, U_GOOGLE, U_EXTERNAL}
CommandUrls == {U_EXTERNAL, U_HTTP}
RedirectUrls == {U_FILE, U_EXTERNAL}
\* Destinations of the policy runs: one or more addresses of every class the
\* classifier tells apart.
PolicyUrls ==
  { "", ABOUT_BLANK, U_BLANK_FRAGMENT, U_GARBAGE, U_HTTP, U_FILE, U_LOGIN, U_GOOGLE,
    U_RELAY, U_EXTERNAL, U_EVIL_LOGIN, U_LOOKALIKE, U_USERINFO }
AllReferrers == {"", FIGMA_RECENTS, U_GOOGLE, U_EVIL_LOGIN}
Titles == {"", "Design"}

(***************************************************************************)
(* Committing a handler's result.                                          *)
(***************************************************************************)
Pre == [win |-> mainWindow, ready |-> shellReady, tabs |-> tabs, order |-> tabOrder,
        active |-> activeTabId, counter |-> tabIdCounter, timer |-> timerArmed,
        popups |-> popups, view |-> viewState, pending |-> pendingTimers]

Bounded(s) == Len(s.order) <= MaxTabs /\ s.counter <= MaxId /\ Len(s.view.ticks) <= MaxTicks

Handler(op, origin, id, url, ref) ==
  [op |-> op, origin |-> origin, id |-> id, url |-> url, ref |-> ref]

\* The shell page's script as it starts: no button, no close requested, no
\* timeout pending, no close command sent.
NoRenderer ==
  [hasRenderedInitialTabs |-> FALSE, tabElements |-> {}, removing |-> {},
   closingTabIds |-> {}, closeTimers |-> {}, removeTimers |-> {}, closeSent |-> EmptyMap]

Commit(s, h) ==
  /\ Bounded(s)
  /\ mainWindow' = s.win
  /\ shellReady' = s.ready
  /\ tabs' = s.tabs
  /\ tabOrder' = s.order
  /\ activeTabId' = s.active
  /\ tabIdCounter' = s.counter
  /\ timerArmed' = s.timer
  /\ viewState' = s.view
  /\ pendingTimers' = s.pending
  /\ last' = [h |-> h, pre |-> Pre, fx |-> s.fx]
  /\ held' = IF h.op = "launch" THEN {} ELSE held \cup DOMAIN tabs

\* A handler of the main process; the shell page's script and its timeouts
\* end with the window.
Apply(s, h) ==
  /\ Commit(s, h)
  /\ renderer' = IF s.win = "live" THEN renderer ELSE NoRenderer

Running == pc = "running"

\* The shell renderer exists, so Shell Bridge commands and key events arrive.
ShellAlive == Running /\ mainWindow = "live"

(***************************************************************************)
(* Application and window lifecycle.                                       *)
(***************************************************************************)
Init ==
  /\ pc = "start"
  /\ platform \in Platforms
  /\ mainWindow = "none"
  /\ shellReady = FALSE
  /\ tabs = EmptyMap
  /\ tabOrder = <<>>
  /\ activeTabId = Null
  /\ tabIdCounter = 0
  /\ timerArmed = FALSE
  /\ disk \in InitialFiles
  /\ popups = <<>>
  /\ held = {}
  /\ viewState = NoViews
  /\ pendingTimers = 0
  /\ renderer = NoRenderer
  /\ last = [h |-> Handler("init", "app", Null, "", ""),
             pre |-> [win |-> "none", ready |-> FALSE, tabs |-> EmptyMap, order |-> <<>>,
                      active |-> Null, counter |-> 0, timer |-> FALSE, popups |-> <<>>,
                      view |-> NoViews, pending |-> 0],
             fx |-> NoFx]

\* app.whenReady().then(...): setupIpc, createMainWindow, restoreTabs.
AppReady ==
  /\ pc = "start"
  /\ pc' = "running"
  /\ Apply(restoreTabs(createMainWindow(Cur), disk),
           Handler("whenReady", "app", Null, "", ""))
  /\ UNCHANGED <<platform, disk, popups>>

\* mainWindow.webContents 'did-finish-load'.
sendLayout(s) ==
  [s EXCEPT !.fx.sent = Append(@, message("tabs:layout",
      [titlebarHeight |-> TITLEBAR_HEIGHT, windowControlsInset |-> WINDOW_CONTROLS_INSET]))]

didFinishLoad(s) ==
  emitWindowState(emitTabsState(sendLayout(
    queueActiveTabBoundsSync([s EXCEPT !.ready = TRUE]))))

ShellDidFinishLoad ==
  /\ ShellAlive
  /\ ~shellReady
  /\ Apply(didFinishLoad(Cur), Handler("did-finish-load", "shell", Null, "", ""))
  /\ UNCHANGED <<pc, platform, disk, popups>>

\* Content sizes the window takes.  minHeight is a hint to the window
\* manager; the last size is one a manager that ignores the hint can give.
Sizes == {DefaultSize, <<960, 640>>, <<200, 20>>}

\* 'resize', 'maximize', 'unmaximize', 'enter-full-screen',
\* 'leave-full-screen', 'restore': the window has its new content size.
onWindowGeometryChanged(s) ==
  emitWindowState(emitTabsState(queueActiveTabBoundsSync(s)))

WindowGeometryChanged(sizes) ==
  /\ ShellAlive
  /\ \E size \in sizes :
       Apply(onWindowGeometryChanged([Cur EXCEPT !.view.size = size]),
             Handler("resize", "window", Null, "", ""))
  /\ UNCHANGED <<pc, platform, disk, popups>>

\* The callback of queueActiveTabBoundsSync's setTimeout(..., 0).
LayoutTick ==
  /\ Running
  /\ viewState.ticks # <<>>
  /\ Apply([updateActiveTabBounds(Cur) EXCEPT !.view.ticks = Tail(@)],
           Handler("tick", "timer", Null, "", ""))
  /\ UNCHANGED <<pc, platform, disk, popups>>

\* mainWindow 'closed', then 'window-all-closed' once no window is left.
WindowClosed ==
  /\ ShellAlive
  /\ pc' = IF platform # "darwin" /\ popups = <<>> THEN "quit" ELSE pc
  /\ Apply(windowClosed(Cur),
           Handler("closed", "window", Null, "", ""))
  /\ UNCHANGED <<platform, disk, popups>>

\* app 'activate' (macOS) with no window open.
AppActivate ==
  /\ Running
  /\ platform = "darwin"
  /\ mainWindow = "destroyed"
  /\ popups = <<>>
  /\ Apply(restoreTabs(createMainWindow(Cur), disk),
           Handler("activate", "app", Null, "", ""))
  /\ UNCHANGED <<pc, platform, disk, popups>>

\* The process is started again after it ended: module state is initial,
\* the snapshot file is what the ended process left.
Relaunch ==
  /\ pc = "quit"
  /\ pc' = "start"
  /\ popups' = <<>>
  /\ Apply([win |-> "none", ready |-> FALSE, tabs |-> EmptyMap, order |-> <<>>,
            active |-> Null, counter |-> 0, timer |-> FALSE, fx |-> NoFx, view |-> NoViews,
            pending |-> 0],
           Handler("launch", "app", Null, "", ""))
  /\ UNCHANGED <<platform, disk>>

\* The debounce timer fires; writeFileSync succeeds or throws.
TimerFire ==
  /\ Running
  /\ timerArmed
  /\ \E written \in BOOLEAN :
       /\ disk' = IF written THEN payload(Cur) ELSE disk
       /\ Apply([Cur EXCEPT !.timer = FALSE, !.pending = @ - 1,
                            !.fx.ret = IF written THEN "written" ELSE "failed"],
                Handler("timer", "timer", Null, "", ""))
  /\ UNCHANGED <<pc, platform, popups>>

(***************************************************************************)
(* Shell Bridge commands (setupIpc).                                       *)
(***************************************************************************)
TabsCreate ==
  /\ ShellAlive
  /\ Apply(createTab(Cur, Undefined, TRUE, Undefined),
           Handler("tabs:create", "ipc", Null, "", ""))
  /\ UNCHANGED <<pc, platform, disk, popups>>

TabsClose ==
  /\ ShellAlive
  /\ \E tabId \in CommandIds :
       Apply(closeTab(Cur, tabId), Handler("tabs:close", "ipc", tabId, "", ""))
  /\ UNCHANGED <<pc, platform, disk, popups>>

TabsActivate ==
  /\ ShellAlive
  /\ \E tabId \in CommandIds :
       Apply(activateTab(Cur, tabId), Handler("tabs:activate", "ipc", tabId, "", ""))
  /\ UNCHANGED <<pc, platform, disk, popups>>

tabsNavigate(s, tabId, url) ==
  IF tabId \in DOMAIN s.tabs /\ Classified[url].isHttps
    THEN activateTab(loadURL(s, tabId, url), tabId)
  ELSE s

TabsNavigate ==
  /\ ShellAlive
  /\ \E tabId \in CommandIds, url \in CommandUrls :
       Apply(tabsNavigate(Cur, tabId, url),
             Handler("tabs:navigate", "ipc", tabId, url, ""))
  /\ UNCHANGED <<pc, platform, disk, popups>>

(***************************************************************************)
(* createTab({url, activate}) called with the window alive, for every      *)
(* kind of url argument: omitted, https, and failing parseHttpsUrl.         *)
(***************************************************************************)
CreateUrls == {Undefined, "", U_FILE, U_EXTERNAL, U_HTTP, U_MAILTO, U_GARBAGE}

activateFlag(activate) == IF activate THEN "activate" ELSE "background"

CreateTabCall ==
  /\ ShellAlive
  /\ \E url \in CreateUrls, activate \in BOOLEAN :
       Apply(createTab(Cur, url, activate, Undefined),
             Handler("createTab", "call", Null, url, activateFlag(activate)))
  /\ UNCHANGED <<pc, platform, disk, popups>>

(***************************************************************************)
(* A Tab Manager operation requested while the window is absent (not yet   *)
(* created, or destroyed): the operation's statements run on the current   *)
(* state.                                                                  *)
(***************************************************************************)
AbsentOps == {"createTab", "closeTab", "activateTab", "cycleTabs", "cycleTabs(reverse)", "navigate"}

absentCall(s, op, tabId, url) ==
  CASE op = "createTab" -> createTab(s, Undefined, TRUE, Undefined)
    [] op = "closeTab" -> closeTab(s, tabId)
    [] op = "activateTab" -> activateTab(s, tabId)
    [] op = "cycleTabs" -> cycleTabs(s, FALSE)
    [] op = "cycleTabs(reverse)" -> cycleTabs(s, TRUE)
    [] op = "navigate" -> tabsNavigate(s, tabId, url)

WindowAbsentCall ==
  /\ pc \in {"start", "running"}
  /\ ~windowAlive(Cur)
  /\ \E op \in AbsentOps, tabId \in CommandIds, url \in CommandUrls :
       Apply(absentCall(Cur, op, tabId, url), Handler(op, "absent", tabId, url, ""))
  /\ UNCHANGED <<pc, platform, disk, popups>>

(***************************************************************************)
(* Keyboard shortcuts (handleTabShortcut), claimed by exactly one of the   *)
(* focused tab's and the window's before-input-event listeners.            *)
(***************************************************************************)
ShortcutKeys == {"t", "w", "tab", "shift+tab"}

handleTabShortcut(s, key) ==
  CASE key = "t" -> createTab(s, Undefined, TRUE, Undefined)
    [] key = "w" -> closeTab(s, s.active)
    [] key = "tab" -> cycleTabs(s, FALSE)
    [] key = "shift+tab" -> cycleTabs(s, TRUE)

ShortcutOf(keys) ==
  /\ ShellAlive
  /\ \E key \in keys :
       Apply(handleTabShortcut(Cur, key), Handler("shortcut", "keyboard", Null, key, ""))
  /\ UNCHANGED <<pc, platform, disk, popups>>

Shortcut == ShortcutOf(ShortcutKeys)

\* Ctrl+Q: app.quit() closes every window and ends the process.
ShortcutQuit ==
  /\ ShellAlive
  /\ pc' = "quit"
  /\ popups' = <<>>
  /\ Apply(windowClosed(Cur),
           Handler("shortcut", "keyboard", Null, "q", ""))
  /\ UNCHANGED <<platform, disk>>

(***************************************************************************)
(* One control/command key-down seen by the 'before-input-event' listener  *)
(* of the active tab's contents, by that of the window's contents, or by   *)
(* both, with what getFocusedWebContents() reports to the window listener: *)
(* a tab's contents, the shell's, or null.                                 *)
(***************************************************************************)
KeyObservers == {"tab", "window", "both"}
FocusReports == {"tab", "shell", "none"}

\* handleTabShortcut(event, input, sourceWebContents) for a recognised key
\* other than q; sourceTabId is the tab of sourceWebContents, Null if none.
\* Line 231: activeTabId || focusedTabId || tabIdFromSource.
handleTabShortcutFrom(s, key, sourceTabId) ==
  IF key = "w" /\ ~truthy(s.active) THEN closeTab(s, sourceTabId)
  ELSE handleTabShortcut(s, key)

\* Lines 626-628: the tab's listener always hands the key on.
tabKeyListener(s, key, observers, tabId) ==
  IF observers \in {"tab", "both"} THEN handleTabShortcutFrom(s, key, tabId) ELSE s

\* Lines 934-946: the window's listener returns when a tab is reported as
\* focused; otherwise its source is the shell's contents or null, no tab.
windowKeyListener(s, key, observers, focus) ==
  IF observers \in {"window", "both"} /\ focus # "tab"
    THEN handleTabShortcutFrom(s, key, Null)
  ELSE s

\* How many times handleTabShortcut ran for the event.
shortcutRuns(observers, focus) ==
  (IF observers \in {"tab", "both"} THEN 1 ELSE 0)
  + (IF observers \in {"window", "both"} /\ focus # "tab" THEN 1 ELSE 0)

keyDown(s, key, observers, focus, tabId) ==
  [windowKeyListener(tabKeyListener(s, key, observers, tabId), key, observers, focus)
   EXCEPT !.fx.ret = shortcutRuns(observers, focus)]

KeyDown ==
  /\ ShellAlive
  /\ \E key \in ShortcutKeys, observers \in KeyObservers, focus \in FocusReports :
       /\ observers \in {"tab", "both"} => activeTabId \in DOMAIN tabs
       /\ Apply(keyDown(Cur, key, observers, focus, activeTabId),
                Handler("keydown", observers, activeTabId, key, focus))
  /\ UNCHANGED <<pc, platform, disk, popups>>

\* The same for Ctrl+Q: app.quit() runs once per handleTabShortcut run.
KeyDownQuit ==
  /\ ShellAlive
  /\ \E observers \in KeyObservers, focus \in FocusReports :
       /\ observers \in {"tab", "both"} => activeTabId \in DOMAIN tabs
       /\ pc' = IF shortcutRuns(observers, focus) > 0 THEN "quit" ELSE pc
       /\ popups' = IF shortcutRuns(observers, focus) > 0 THEN <<>> ELSE popups
       /\ Apply([(IF shortcutRuns(observers, focus) > 0
                    THEN windowClosed(Cur)
                  ELSE Cur)
                 EXCEPT !.fx.ret = shortcutRuns(observers, focus)],
                Handler("keydown", observers, activeTabId, "q", focus))
  /\ UNCHANGED <<platform, disk>>

(***************************************************************************)
(* Listeners of a tab's webContents (trackTabState).  A tab's container    *)
(* lives until closeTab destroys it, whatever becomes of the window.       *)
(***************************************************************************)
HistoryFlags == {<<FALSE, FALSE>>, <<TRUE, FALSE>>, <<FALSE, TRUE>>}

\* Mutant: the redirected tab is created in the background.
tabWindowOpenBackground(s, url, referrerUrl) ==
  IF shouldOpenAuthPopup(url, referrerUrl) THEN [s EXCEPT !.fx.ret = "allow"]
  ELSE IF Classified[url].isFigmaUrl
    THEN [createTab(s, url, FALSE, Undefined) EXCEPT !.fx.ret = "deny"]
  ELSE [routeExternal(s, url) EXCEPT !.fx.ret = "deny"]

\* Mutant: an allowed popup is also entered in the collection as a
\* background tab.
tabWindowOpenTracked(s, url, referrerUrl) ==
  IF shouldOpenAuthPopup(url, referrerUrl)
    THEN [createTab(s, FIGMA_HOME, FALSE, Undefined) EXCEPT !.fx.ret = "allow"]
  ELSE IF Classified[url].isFigmaUrl
    THEN [createTab(s, url, TRUE, Undefined) EXCEPT !.fx.ret = "deny"]
  ELSE [routeExternal(s, url) EXCEPT !.fx.ret = "deny"]

\* setWindowOpenHandler of a tab; fx.ret is the action returned.
tabWindowOpen(s, url, referrerUrl) ==
  IF shouldOpenAuthPopup(url, referrerUrl) THEN [s EXCEPT !.fx.ret = "allow"]
  ELSE IF Classified[url].isFigmaUrl
    THEN [createTab(s, url, TRUE, Undefined) EXCEPT !.fx.ret = "deny"]
  ELSE [routeExternal(s, url) EXCEPT !.fx.ret = "deny"]

\* The window Electron creates for an allowed request.  'did-create-window'
\* is emitted on the opener: the listener of lines 478-503 runs for windows
\* opened by a tab and installs the popup's will-navigate listener and
\* window-open handler; nothing listens on a popup's own webContents, so a
\* window opened by a popup gets neither.
createdWindow(openerIsTab) == [governed |-> openerIsTab]

TabWindowOpen(urls, refs) ==
  /\ Running
  /\ DOMAIN tabs # {}
  /\ \E url \in urls, ref \in refs :
       LET s == tabWindowOpen(Cur, url, ref)
       IN /\ popups' = IF s.fx.ret = "allow" THEN Append(popups, createdWindow(TRUE))
                       ELSE popups
          /\ Len(popups') <= MaxPopups
          /\ Apply(s, Handler("window-open", "tab", Null, url, ref))
  /\ UNCHANGED <<pc, platform, disk>>

\* Mutant: only target-site destinations proceed.
willNavigateFigmaOnly(s, url) ==
  IF ~Classified[url].isFigmaUrl THEN [routeExternal(s, url) EXCEPT !.fx.ret = "cancel"]
  ELSE [s EXCEPT !.fx.ret = "proceed"]

\* 'will-navigate' of a tab; fx.ret "cancel" is event.preventDefault().
willNavigate(s, url) ==
  IF ~isAllowedAuthOrFigmaUrl(url) THEN [routeExternal(s, url) EXCEPT !.fx.ret = "cancel"]
  ELSE [s EXCEPT !.fx.ret = "proceed"]

TabWillNavigate(urls) ==
  /\ Running
  /\ \E tabId \in DOMAIN tabs, url \in urls :
       Apply(willNavigate(Cur, url), Handler("will-navigate", "tab", tabId, url, ""))
  /\ UNCHANGED <<pc, platform, disk, popups>>

pageTitleUpdated(s, tabId, title) ==
  queuePersistTabState(emitTabsState(
    [s EXCEPT !.tabs[tabId].title = IF title = "" THEN DEFAULT_TITLE ELSE title]))

TabTitleUpdated ==
  /\ Running
  /\ \E tabId \in DOMAIN tabs, title \in Titles :
       Apply(pageTitleUpdated(Cur, tabId, title),
             Handler("page-title-updated", "tab", tabId, title, ""))
  /\ UNCHANGED <<pc, platform, disk, popups>>

didStartLoading(s, tabId) == emitTabsState([s EXCEPT !.tabs[tabId].isLoading = TRUE])

TabDidStartLoading ==
  /\ Running
  /\ \E tabId \in DOMAIN tabs :
       Apply(didStartLoading(Cur, tabId),
             Handler("did-start-loading", "tab", tabId, "", ""))
  /\ UNCHANGED <<pc, platform, disk, popups>>

\* 'did-stop-loading': currentUrl is webContents.getURL().
didStopLoading(s, tabId, currentUrl, flags) ==
  queuePersistTabState(emitTabsState(
    [s EXCEPT !.tabs[tabId].isLoading = FALSE,
              !.tabs[tabId].url = IF currentUrl = "" THEN @ ELSE currentUrl,
              !.tabs[tabId].canGoBack = flags[1],
              !.tabs[tabId].canGoForward = flags[2]]))

TabDidStopLoading(urls, history) ==
  /\ Running
  /\ \E tabId \in DOMAIN tabs, url \in urls \cup {""}, flags \in history :
       Apply(didStopLoading(Cur, tabId, url, flags),
             Handler("did-stop-loading", "tab", tabId, url, ""))
  /\ UNCHANGED <<pc, platform, disk, popups>>

\* 'did-navigate' and 'did-navigate-in-page' run the same statements.
didNavigate(s, tabId, url, flags) ==
  queuePersistTabState(emitTabsState(
    [s EXCEPT !.tabs[tabId].url = url,
              !.tabs[tabId].canGoBack = flags[1],
              !.tabs[tabId].canGoForward = flags[2]]))

TabDidNavigate(urls, history) ==
  /\ Running
  /\ \E tabId \in DOMAIN tabs, url \in urls, flags \in history :
       Apply(didNavigate(Cur, tabId, url, flags),
             Handler("did-navigate", "tab", tabId, url, ""))
  /\ UNCHANGED <<pc, platform, disk, popups>>

TabDidNavigateInPage(urls, history) ==
  /\ Running
  /\ \E tabId \in DOMAIN tabs, url \in urls, flags \in history :
       Apply(didNavigate(Cur, tabId, url, flags),
             Handler("did-navigate-in-page", "tab", tabId, url, ""))
  /\ UNCHANGED <<pc, platform, disk, popups>>

(***************************************************************************)
(* Auth popup windows.                                                     *)
(***************************************************************************)
\* The popup's window-open handler (lines 492-502) when it is installed;
\* Electron allows the window when no handler is installed.
popupWindowOpen(s, popup, url, referrerUrl) ==
  IF ~popup.governed THEN [s EXCEPT !.fx.ret = "allow"]
  ELSE IF shouldOpenAuthPopup(url, referrerUrl) THEN [s EXCEPT !.fx.ret = "allow"]
  ELSE [routeExternal(s, url) EXCEPT !.fx.ret = "deny"]

originOf(popup) == IF popup.governed THEN "popup" ELSE "nested"

PopupWindowOpen(urls, refs) ==
  /\ Running
  /\ \E i \in 1..Len(popups), url \in urls, ref \in refs :
       LET s == popupWindowOpen(Cur, popups[i], url, ref)
       IN /\ popups' = IF s.fx.ret = "allow" THEN Append(popups, createdWindow(FALSE))
                       ELSE popups
          /\ Len(popups') <= MaxPopups
          /\ Apply(s, Handler("window-open", originOf(popups[i]), Null, url, ref))
  /\ UNCHANGED <<pc, platform, disk>>

\* The popup's will-navigate listener (lines 485-490) when it is attached;
\* the navigation proceeds when nothing listens.
popupWillNavigate(s, popup, url) ==
  IF popup.governed /\ ~isAllowedAuthOrFigmaUrl(url)
    THEN [routeExternal(s, url) EXCEPT !.fx.ret = "cancel"]
  ELSE [s EXCEPT !.fx.ret = "proceed"]

PopupWillNavigate(urls) ==
  /\ Running
  /\ \E i \in 1..Len(popups), url \in urls :
       Apply(popupWillNavigate(Cur, popups[i], url),
             Handler("will-navigate", originOf(popups[i]), Null, url, ""))
  /\ UNCHANGED <<pc, platform, disk, popups>>

\* An auth popup window closes; on Linux the application quits with the
\* last window.
PopupClosed ==
  /\ Running
  /\ \E i \in 1..Len(popups) :
       /\ popups' = removeAt(popups, i)
       /\ pc' = IF platform # "darwin" /\ mainWindow = "destroyed" /\ popups' = <<>>
                  THEN "quit" ELSE pc
  /\ Apply(Cur, Handler("closed", "popup", Null, "", ""))
  /\ UNCHANGED <<platform, disk>>

(***************************************************************************)
(* The shell page's script (renderer): tab buttons and the delayed close.  *)
(***************************************************************************)
\* Ids of the snapshot's tabs.
snapshotIds(snapshot) == {snapshot.tabs[i].id : i \in 1..Len(snapshot.tabs)}

\* renderTabs(): a button for every id of the state; every other button
\* that is not yet being removed is marked and gets a removal timeout.
renderTabs(r, ids) ==
  [r EXCEPT !.hasRenderedInitialTabs = TRUE,
            !.tabElements = @ \cup ids,
            !.removing = (@ \ ids) \cup (r.tabElements \ (ids \cup r.removing)),
            !.removeTimers = @ \cup (r.tabElements \ (ids \cup r.removing))]

\* The script receives the tab state: the reply to its list() call when it
\* starts, or a 'tabs:stateChanged' message once the shell is ready. The
\* state received is the current one; a script that lags is one that has
\* not taken this step yet.
RenderTabs ==
  /\ ShellAlive
  /\ shellReady \/ ~renderer.hasRenderedInitialTabs
  /\ renderer' = renderTabs(renderer, snapshotIds(getTabsSnapshot(tabs, tabOrder, activeTabId)))
  /\ renderer' # renderer
  /\ UNCHANGED <<pc, platform, mainWindow, shellReady, tabs, tabOrder, activeTabId,
                 tabIdCounter, timerArmed, disk, popups, last, held, viewState,
                 pendingTimers>>

\* requestCloseTab(tabId) for an id not yet closing.
requestCloseTab(r, tabId) ==
  [r EXCEPT !.closingTabIds = @ \cup {tabId}, !.closeTimers = @ \cup {tabId}]

\* A click on the close button of a tab button; nothing happens when the
\* id is in closingTabIds.
RequestCloseTab ==
  /\ ShellAlive
  /\ \E tabId \in renderer.tabElements \ renderer.closingTabIds :
       renderer' = requestCloseTab(renderer, tabId)
  /\ UNCHANGED <<pc, platform, mainWindow, shellReady, tabs, tabOrder, activeTabId,
                 tabIdCounter, timerArmed, disk, popups, last, held, viewState,
                 pendingTimers>>

\* One more close command sent for the id.
countSent(sent, tabId) ==
  IF tabId \in DOMAIN sent THEN [sent EXCEPT ![tabId] = @ + 1] ELSE sent @@ (tabId :> 1)

\* The close-animation timeout of requestCloseTab fires: figmuxTabs.close(tabId)
\* reaches the 'tabs:close' handler.
DelayedClose ==
  /\ ShellAlive
  /\ \E tabId \in renderer.closeTimers :
       /\ Commit(closeTab(Cur, tabId), Handler("tabs:close", "delayed", tabId, "", ""))
       /\ renderer' = [renderer EXCEPT !.closeTimers = @ \ {tabId},
                                       !.closeSent = countSent(@, tabId)]
  /\ UNCHANGED <<pc, platform, disk, popups>>

\* The removal timeout of renderTabs fires: the button goes, and with it
\* the id's entries in tabElements and closingTabIds.
RemoveTimeout ==
  /\ ShellAlive
  /\ \E tabId \in renderer.removeTimers :
       renderer' = [renderer EXCEPT !.tabElements = @ \ {tabId},
                                    !.removing = @ \ {tabId},
                                    !.closingTabIds = @ \ {tabId},
                                    !.removeTimers = @ \ {tabId}]
  /\ UNCHANGED <<pc, platform, mainWindow, shellReady, tabs, tabOrder, activeTabId,
                 tabIdCounter, timerArmed, disk, popups, last, held, viewState,
                 pendingTimers>>

(***************************************************************************)
(* Specifications.                                                         *)
(***************************************************************************)
\* Tab lifecycle: commands, shortcuts, popup redirects, window close and
\* re-activation, persistence.
Next ==
  \/ AppReady
  \/ WindowClosed
  \/ AppActivate
  \/ TabsCreate
  \/ TabsClose
  \/ TabsActivate
  \/ TabsNavigate
  \/ Shortcut
  \/ ShortcutQuit
  \/ TabWindowOpen(RedirectUrls, {FIGMA_RECENTS})

InitTabs == Init /\ disk \in StartFiles

Spec == InitTabs /\ [][Next]_vars

\* Navigation / popup policy: every destination and referrer of the URL
\* universe, requested from tabs, from auth popups and from the windows
\* auth popups open.
InitPolicy == Init /\ disk = NoFile

NextPolicy ==
  \/ AppReady
  \/ WindowClosed
  \/ TabWindowOpen(PolicyUrls, AllReferrers)
  \/ TabWillNavigate(PolicyUrls)
  \/ PopupWindowOpen(PolicyUrls, AllReferrers)
  \/ PopupWillNavigate(PolicyUrls)
  \/ PopupClosed

SpecPolicy == InitPolicy /\ [][NextPolicy]_vars


\* The shell's readiness: the renderer finishes loading, tabs change through
\* the bridge and through their own events, the window changes size, closes
\* and (macOS) is created again.
NextShell ==
  \/ AppReady
  \/ ShellDidFinishLoad
  \/ WindowClosed
  \/ AppActivate
  \/ TabsCreate
  \/ TabsClose
  \/ TabDidStartLoading
  \/ WindowGeometryChanged({DefaultSize})
  \/ LayoutTick

\* Started without a file, or from one whose saved active tab is not restored.
ShellFiles == {NoFile, jsonFile("tab-2", <<entry("tab-1", U_FILE), entry("tab-2", U_EXTERNAL)>>)}

InitShell == Init /\ disk \in ShellFiles

SpecShell == InitShell /\ [][NextShell]_vars

\* The delayed close of the shell page against the other ways a tab goes
\* or comes: the close shortcut, New Tab, the replacement of the last tab,
\* the window closing and (macOS) coming back.
NextDelay ==
  \/ AppReady
  \/ ShellDidFinishLoad
  \/ WindowClosed
  \/ AppActivate
  \/ ShortcutOf({"t", "w"})
  \/ RenderTabs
  \/ RequestCloseTab
  \/ DelayedClose
  \/ RemoveTimeout

\* Started without a file, or (where the window's end is the application's)
\* from a file of which one tab is restored.
InitDelay == InitShell /\ (platform = "darwin" => disk = NoFile)

SpecDelay == InitDelay /\ [][NextDelay]_vars

\* What the containers report: a navigation committed after a server
\* redirect (which 'will-navigate' does not see) to another https site or to
\* a non-secure address, an in-page navigation, the address at load end.
NextNav ==
  \/ AppReady
  \/ TabsCreate
  \/ WindowClosed
  \/ TabDidNavigate({U_EXTERNAL, U_HTTP}, {<<TRUE, FALSE>>})
  \/ TabDidNavigateInPage({U_FILE}, {<<TRUE, FALSE>>})
  \/ TabDidStopLoading({U_HTTP}, {<<FALSE, FALSE>>})

SpecNav == InitPolicy /\ [][NextNav]_vars

\* Layout: the window takes new content sizes while tabs are created and
\* activated, the deferred re-layout running at any later time.
NextLayout ==
  \/ AppReady
  \/ TabsCreate
  \/ TabsActivate
  \/ WindowGeometryChanged(Sizes)
  \/ LayoutTick
  \/ WindowClosed

SpecLayout == InitPolicy /\ [][NextLayout]_vars

\* The debounce: bursts of title updates and new tabs, the timer firing in
\* between or not, and the window closing.
NextDebounce ==
  \/ AppReady
  \/ TabTitleUpdated
  \/ TabsCreate
  \/ TimerFire
  \/ WindowClosed

SpecDebounce == InitPolicy /\ [][NextDebounce]_vars

\* Persistence: tabs opened and navigated away from the site, the debounced
\* write, window close, quit, a new start of the process and re-activation,
\* from every kind of snapshot file.
PersistUrls == {U_EXTERNAL}

\* Tabs the user opens in the persistence runs.
MaxSaved == 2

InitPersist == Init /\ disk \in PersistFiles

NextPersist ==
  \/ AppReady
  \/ WindowClosed
  \/ AppActivate
  \/ ShortcutQuit
  \/ Relaunch
  \/ TimerFire
  \/ Len(tabOrder) < MaxSaved /\ TabsCreate
  \/ TabDidNavigate(PersistUrls, {<<FALSE, FALSE>>})

SpecPersist == InitPersist /\ [][NextPersist]_vars

\* Operations requested with the window absent: before it is created, and
\* after it was closed while the tabs remain (macOS).
NextAbsent ==
  \/ AppReady
  \/ TabsCreate
  \/ TabsActivate
  \/ WindowClosed
  \/ AppActivate
  \/ WindowAbsentCall

SpecAbsent == InitTabs /\ [][NextAbsent]_vars

\* createTab with every kind of argument, among closes and activations.
NextCreate ==
  \/ AppReady
  \/ CreateTabCall
  \/ TabsClose
  \/ TabsActivate
  \/ WindowClosed

\* Started without a file, or from one with two restorable tabs, the second
\* saved as active.
CreateFiles == {NoFile, jsonFile("tab-2", <<entry("tab-1", U_FILE), entry("tab-2", U_LOGIN)>>)}

InitCreate == Init /\ disk \in CreateFiles

SpecCreate == InitCreate /\ [][NextCreate]_vars

\* Key events: every combination of observing listeners and focus report.
NextKeys ==
  \/ AppReady
  \/ TabsActivate
  \/ KeyDown
  \/ KeyDownQuit
  \/ WindowClosed

SpecKeys == InitPolicy /\ [][NextKeys]_vars

(***************************************************************************)
(* Properties.  `last` names the handler that just ran, `last.pre` the     *)
(* state it started from and `last.fx` its outward effects.                *)
(***************************************************************************)
NoDuplicates(seq) == \A i, j \in 1..Len(seq) : seq[i] = seq[j] => i = j

Consistent(order, map) == NoDuplicates(order) /\ Range(order) = DOMAIN map

\* closeTab ran: the tabs:close command, or the close shortcut.
CloseTabRan ==
  \/ last.h.op = "tabs:close"
  \/ last.h.op = "shortcut" /\ last.h.url = "w"

ClosedId == IF last.h.op = "tabs:close" THEN last.h.id ELSE last.pre.active

TabStateUnchanged ==
  tabs = last.pre.tabs /\ tabOrder = last.pre.order /\ activeTabId = last.pre.active

WindowOpenFrom(origins) == last.h.op = "window-open" /\ last.h.origin \in origins

WillNavigateFrom(origins) == last.h.op = "will-navigate" /\ last.h.origin \in origins

\* The allow rule of the policy, on the classifier itself.
AllowedAsAuthPopup(url, referrerUrl) ==
  \/ isOAuthUrl(url)
  \/ isAboutBlankUrl(url)
  \/ isOAuthUrl(referrerUrl) /\ isFigmaUrl(url)

C2_ActiveIdValid ==
  activeTabId # Null => activeTabId \in DOMAIN tabs /\ activeTabId \in Range(tabOrder)

\* C3: closing the only tab leaves, in the same handler run, exactly one tab:
\* a newly issued id other than the closed one, at the recent-files address,
\* active.
C3_CloseLastTab ==
  ( /\ CloseTabRan
    /\ last.pre.win = "live"
    /\ last.pre.order = <<ClosedId>>
    /\ DOMAIN last.pre.tabs = {ClosedId} ) =>
    /\ Len(tabOrder) = 1
    /\ DOMAIN tabs = {tabOrder[1]}
    /\ tabOrder[1] # ClosedId
    /\ tabIdCounter = last.pre.counter + 1
    /\ tabOrder[1] = tabIdOf(tabIdCounter)
    /\ tabs[tabOrder[1]].id = tabOrder[1]
    /\ tabs[tabOrder[1]].url = FIGMA_RECENTS
    /\ activeTabId = tabOrder[1]
    /\ last.fx.loads = <<<<tabOrder[1], FIGMA_RECENTS>>>>

C3_Witness ==
  /\ last.h.op = "shortcut"
  /\ last.h.url = "w"
  /\ last.pre.win = "live"
  /\ last.pre.order = <<last.pre.active>>
  /\ DOMAIN last.pre.tabs = {last.pre.active}
  /\ activeTabId # last.pre.active
  /\ tabOrder = <<activeTabId>>

\* C4: a popup requested from a tab is allowed exactly when the destination
\* is an auth URL or a placeholder, or the referrer is an auth URL and the
\* destination a target-site URL; an allowed request opens one governed
\* popup and neither creates a tab nor hands anything to the system.
C4_PopupAllowVerdict ==
  WindowOpenFrom({"tab"}) =>
    /\ (last.fx.ret = "allow") <=> AllowedAsAuthPopup(last.h.url, last.h.ref)
    /\ last.fx.ret = "allow" =>
         /\ TabStateUnchanged
         /\ tabIdCounter = last.pre.counter
         /\ last.fx.ext = <<>>
         /\ last.fx.loads = <<>>
         /\ popups = Append(last.pre.popups, [governed |-> TRUE])

C4_Witness ==
  /\ WindowOpenFrom({"tab"})
  /\ last.h.url = U_FILE
  /\ last.h.ref = U_GOOGLE
  /\ last.fx.ret = "allow"
  /\ Len(popups) = Len(last.pre.popups) + 1

\* C5: with a live window, a popup requested from a tab for a target-site
\* destination, with neither destination nor referrer an auth URL, is denied
\* and exactly one tab with that destination is appended and made active.
C5_RedirectToTab ==
  ( /\ WindowOpenFrom({"tab"})
    /\ last.pre.win = "live"
    /\ isFigmaUrl(last.h.url)
    /\ ~isOAuthUrl(last.h.url)
    /\ ~isOAuthUrl(last.h.ref) ) =>
    LET newId == tabIdOf(tabIdCounter)
    IN /\ last.fx.ret = "deny"
       /\ popups = last.pre.popups
       /\ last.fx.ext = <<>>
       /\ newId \notin DOMAIN last.pre.tabs
       /\ tabOrder = Append(last.pre.order, newId)
       /\ DOMAIN tabs = DOMAIN last.pre.tabs \cup {newId}
       /\ \A id \in DOMAIN last.pre.tabs : tabs[id] = last.pre.tabs[id]
       /\ tabs[newId].url = last.h.url
       /\ activeTabId = newId
       /\ last.fx.loads = <<<<newId, last.h.url>>>>

C5_Witness ==
  /\ WindowOpenFrom({"tab"})
  /\ last.pre.win = "live"
  /\ last.h.url = U_FILE
  /\ last.h.ref = FIGMA_RECENTS
  /\ Len(tabOrder) = Len(last.pre.order) + 1
  /\ activeTabId = tabOrder[Len(tabOrder)]
  /\ last.pre.active # activeTabId

\* C6: a popup requested from a tab or from any auth popup for a destination
\* that is neither auth, nor placeholder, nor target-site is denied, the
\* destination is handed to the system once, and no tab or window is made.
C6_ExternalPopupDeflected ==
  ( /\ WindowOpenFrom({"tab", "popup", "nested"})
    /\ ~isOAuthUrl(last.h.url)
    /\ ~isAboutBlankUrl(last.h.url)
    /\ ~isFigmaUrl(last.h.url) ) =>
    /\ last.fx.ret = "deny"
    /\ last.fx.ext = <<last.h.url>>
    /\ popups = last.pre.popups
    /\ TabStateUnchanged

\* C7: a navigation attempted in a tab proceeds exactly when its destination
\* is a target-site or auth URL; otherwise it is cancelled and handed to the
\* system once; either way the tab records and the collection are untouched.
C7_NavigationSplit ==
  WillNavigateFrom({"tab"}) =>
    /\ last.fx.ret \in {"proceed", "cancel"}
    /\ (last.fx.ret = "proceed") <=> (isFigmaUrl(last.h.url) \/ isOAuthUrl(last.h.url))
    /\ last.fx.ret = "cancel" => last.fx.ext = <<last.h.url>>
    /\ last.fx.ret = "proceed" => last.fx.ext = <<>>
    /\ last.fx.loads = <<>>
    /\ TabStateUnchanged

C7_Witness ==
  /\ WillNavigateFrom({"tab"})
  /\ last.h.url = U_EXTERNAL
  /\ last.fx.ret = "cancel"
  /\ last.fx.ext = <<U_EXTERNAL>>
  /\ tabs = last.pre.tabs

\* C8: every URL a handler loads into a tab container is a target-site URL
\* or an auth URL.
C8_LoadsStayInSite ==
  \A i \in 1..Len(last.fx.loads) :
    isFigmaUrl(last.fx.loads[i][2]) \/ isOAuthUrl(last.fx.loads[i][2])

\* C9: in every auth popup, at any depth, a navigation to a URL that is
\* neither target-site nor auth is cancelled and handed to the system, and a
\* popup request the policy does not allow is denied.
C9_PopupsGoverned ==
  /\ ( /\ WillNavigateFrom({"popup", "nested"})
       /\ ~isFigmaUrl(last.h.url)
       /\ ~isOAuthUrl(last.h.url) ) =>
       last.fx.ret = "cancel" /\ last.fx.ext = <<last.h.url>>
  /\ ( /\ WindowOpenFrom({"popup", "nested"})
       /\ ~AllowedAsAuthPopup(last.h.url, last.h.ref) ) =>
       last.fx.ret = "deny"

\* The state the last handler started from, as a handler argument.
PreState ==
  [win |-> last.pre.win, ready |-> last.pre.ready, tabs |-> last.pre.tabs,
   order |-> last.pre.order, active |-> last.pre.active, counter |-> last.pre.counter,
   timer |-> last.pre.timer, fx |-> NoFx, view |-> last.pre.view,
   pending |-> last.pre.pending]

\* What became of a popup request: allowed, redirected into a tab (createTab
\* ran), or deflected.
outcome(ret, counterBefore, counterAfter) ==
  IF ret = "allow" THEN "allow"
  ELSE IF counterAfter # counterBefore THEN "redirect"
  ELSE "deflect"

\* C10: a popup request from an auth popup has the outcome the same request
\* has from a tab.
C10_SamePolicyInPopups ==
  WindowOpenFrom({"popup", "nested"}) =>
    LET fromTab == tabWindowOpen(PreState, last.h.url, last.h.ref)
    IN outcome(last.fx.ret, last.pre.counter, tabIdCounter)
         = outcome(fromTab.fx.ret, last.pre.counter, fromTab.counter)

\* The last handler ran for an auth popup: a tab's request that was allowed,
\* or any event of a popup window (request, navigation, closing).
PopupStep ==
  \/ WindowOpenFrom({"tab"}) /\ last.fx.ret = "allow"
  \/ last.h.origin \in {"popup", "nested"}

\* C11: allowing an auth popup, a navigation or popup request inside one and
\* its closing leave the collection (order and id->Tab map), the active id,
\* the id counter and the snapshot file as they were, arm no persistence
\* write, send the shell no tab state and load nothing into a tab.
C11_PopupsUntracked ==
  [][PopupStep' =>
       /\ UNCHANGED <<tabs, tabOrder, activeTabId, tabIdCounter, timerArmed, disk>>
       /\ last'.fx.armed = 0
       /\ last'.fx.emits = 0
       /\ last'.fx.loads = <<>>]_vars

C11_Witness ==
  /\ last.h.op = "closed"
  /\ last.h.origin = "popup"
  /\ Len(popups) = Len(last.pre.popups) - 1
  /\ DOMAIN tabs # {}
  /\ tabs = last.pre.tabs
  /\ timerArmed

\* restoreTabs just ran, reading the file `disk`.
RestoreRan == last.h.op \in {"whenReady", "activate"}

\* The saved entries with a restorable address, in file order.
Restorable(file) ==
  IF file.kind # "json" THEN <<>>
  ELSE SelectSeq(file.tabs,
                 LAMBDA e : e.id \notin {Null, Undefined} /\ e.url \notin {Null, Undefined}
                            /\ canRestoreUrl(e.url))

SavedIds(file) == [i \in 1..Len(Restorable(file)) |-> Restorable(file)[i].id]

\* After a restoration run by one of `ops` from a file with a restorable
\* entry, the collection is the restorable entries, the active tab the saved
\* one if restored and the first restored tab otherwise.
RoundTrip(ops) ==
  (last.h.op \in ops /\ Len(Restorable(disk)) > 0) =>
    /\ tabOrder = SavedIds(disk)
    /\ DOMAIN tabs = Range(SavedIds(disk))
    /\ \A i \in 1..Len(Restorable(disk)) :
         /\ tabs[Restorable(disk)[i].id].id = Restorable(disk)[i].id
         /\ tabs[Restorable(disk)[i].id].url = Restorable(disk)[i].url
    /\ activeTabId = IF disk.activeTabId \in Range(SavedIds(disk))
                       THEN disk.activeTabId
                     ELSE SavedIds(disk)[1]

\* C12: restoring from a written snapshot yields exactly the saved tabs with
\* restorable addresses, in their saved order, with their ids and
\* addresses; the active tab is the saved active id if that tab was
\* restored and the first restored tab otherwise.
C12_RoundTrip == RoundTrip({"whenReady", "activate"})

\* C13: when the snapshot file is missing, not valid JSON, without a tabs
\* array or without an entry of restorable address, restoration adds
\* exactly one tab, of a fresh id, at the recent-files address, activates
\* it, keeps every other tab as it was and leaves the process running.
C13_StartupFallback ==
  (RestoreRan /\ Len(Restorable(disk)) = 0) =>
    /\ pc = "running"
    /\ tabIdOf(tabIdCounter) \notin DOMAIN last.pre.tabs
    /\ tabOrder = Append(last.pre.order, tabIdOf(tabIdCounter))
    /\ DOMAIN tabs = DOMAIN last.pre.tabs \cup {tabIdOf(tabIdCounter)}
    /\ \A id \in DOMAIN last.pre.tabs : tabs[id] = last.pre.tabs[id]
    /\ tabs[tabIdOf(tabIdCounter)].url = FIGMA_RECENTS
    /\ activeTabId = tabIdOf(tabIdCounter)
    /\ last.fx.loads = <<<<tabIdOf(tabIdCounter), FIGMA_RECENTS>>>>

C13_Witness ==
  /\ last.h.op = "whenReady"
  /\ disk.kind = "json"
  /\ Len(disk.tabs) = 3
  /\ Len(Restorable(disk)) = 0
  /\ tabOrder = <<"tab-1">>
  /\ activeTabId = "tab-1"

\* C14: a pending write is never given up: when a handler leaves the
\* debounce timer disarmed that it found armed, the snapshot file equals
\* the {activeTabId, tabs} state, unless that handler was a write that
\* failed.  (Nothing arms the timer again without a further change, so a
\* pending write given up with the file differing is a change that never
\* reaches the file.)
C14_EventualPersistence ==
  (last.pre.timer /\ ~timerArmed /\ last.h.op # "launch") =>
    (disk = payload(Cur) \/ last.fx.ret = "failed")

\* A Shell Bridge command ran with an id that names no tab.
StaleCommand ==
  /\ last.h.op \in {"tabs:close", "tabs:activate", "tabs:navigate"}
  /\ last.h.id \notin DOMAIN last.pre.tabs

\* C15: tabs:close, tabs:activate and tabs:navigate with an id that names no
\* tab (never issued, or already closed) change nothing: order, tab records,
\* active id, id counter and pending write are as before the call, nothing
\* is loaded or sent, so the snapshot returned equals the one before.
C15_StaleIdNoOp ==
  StaleCommand =>
    /\ TabStateUnchanged
    /\ tabIdCounter = last.pre.counter
    /\ timerArmed = last.pre.timer
    /\ mainWindow = last.pre.win
    /\ last.fx = NoFx

C15_Witness ==
  /\ StaleCommand
  /\ last.h.op = "tabs:close"
  /\ last.h.id \in {tabIdOf(n) : n \in 1..tabIdCounter}
  /\ Len(tabOrder) >= 2

\* C16: with the window absent, createTab, closeTab, activateTab, cycleTabs
\* and navigate leave the order, the id->Tab map and the active id as they
\* were, and createTab returns null.
C16_WindowAbsentGuard ==
  last.h.origin = "absent" =>
    /\ TabStateUnchanged
    /\ last.h.op = "createTab" => last.fx.ret = Null

\* cycleTabs ran from the shortcut: forward for "tab", backward for "shift+tab".
CycleRan == last.h.op = "shortcut" /\ last.h.url \in {"tab", "shift+tab"}

\* Index (from 1) of the active tab in the order before the call; 0 if none.
ActiveIndexBefore == indexOf(last.pre.order, last.pre.active)

RECURSIVE cycleTimes(_, _)
cycleTimes(s, k) == IF k = 0 THEN s ELSE cycleTimes(cycleTabs(s, FALSE), k - 1)

\* C17: with n >= 2 tabs and the active tab at index i of the order (from
\* 0), cycling forward activates the tab at index (i+1) mod n and cycling
\* backward the one at (i-1) mod n, the order and the tabs staying as they
\* were; with fewer than two tabs cycling changes nothing; n forward
\* cycles, and a forward followed by a backward cycle, end on the tab they
\* started from.
C17_Cycle ==
  CycleRan =>
    /\ tabOrder = last.pre.order
    /\ tabs = last.pre.tabs
    /\ Len(last.pre.order) < 2 => activeTabId = last.pre.active
    /\ (Len(last.pre.order) >= 2 /\ ActiveIndexBefore > 0) =>
         /\ last.h.url = "tab" =>
              activeTabId = last.pre.order[(ActiveIndexBefore % Len(last.pre.order)) + 1]
         /\ last.h.url = "shift+tab" =>
              activeTabId = last.pre.order[((ActiveIndexBefore - 2 + Len(last.pre.order))
                                             % Len(last.pre.order)) + 1]
         /\ cycleTimes(PreState, Len(last.pre.order)).active = last.pre.active
         /\ cycleTabs(cycleTabs(PreState, FALSE), TRUE).active = last.pre.active

\* Index (from 1) of the closed tab in the order before the call; 0 if none.
ClosedIndexBefore == indexOf(last.pre.order, ClosedId)

\* C18: closing one of n >= 2 tabs with the window alive: if the closed tab
\* (at index i of the order) was active, the active tab becomes the one that
\* followed it, or the new last tab if it was the rightmost; if it was not
\* active, the active id stays as it was.
C18_ActiveAfterClose ==
  ( /\ CloseTabRan
    /\ last.pre.win = "live"
    /\ ClosedId \in DOMAIN last.pre.tabs
    /\ Cardinality(DOMAIN last.pre.tabs) >= 2
    /\ Len(last.pre.order) >= 2
    /\ ClosedIndexBefore > 0 ) =>
    /\ ClosedId \notin DOMAIN tabs
    /\ activeTabId \in DOMAIN tabs
    /\ last.pre.active = ClosedId =>
         activeTabId = IF ClosedIndexBefore < Len(last.pre.order)
                         THEN last.pre.order[ClosedIndexBefore + 1]
                       ELSE last.pre.order[Len(last.pre.order) - 1]
    /\ last.pre.active # ClosedId => activeTabId = last.pre.active

\* The state one run of the shortcut's action leaves, from the state before
\* the key event.
OneShortcutRun == handleTabShortcutFrom(PreState, last.h.url, last.h.id)

\* C19: one control/command key-down of a recognised shortcut performs the
\* shortcut's action exactly once, whichever listeners observe it and
\* whatever container is reported as focused: handleTabShortcut runs once,
\* and tabs, order, active id and id counter are those one run leaves (for
\* quit: the process ends).
C19_NoDoubleFire ==
  last.h.op = "keydown" =>
    /\ last.fx.ret = 1
    /\ last.h.url = "q" => pc = "quit"
    /\ last.h.url # "q" =>
         /\ tabs = OneShortcutRun.tabs
         /\ tabOrder = OneShortcutRun.order
         /\ activeTabId = OneShortcutRun.active
         /\ tabIdCounter = OneShortcutRun.counter

\* The ids createTab gave to the tabs it created in the last handler run, in
\* creation order (createTab loads every tab it creates; tabs:navigate is
\* the one handler that loads into a tab that exists).
CreatedIds ==
  IF last.h.op = "tabs:navigate" THEN <<>>
  ELSE [i \in 1..Len(last.fx.loads) |-> last.fx.loads[i][1]]

\* The ids nextTabId issued in the last handler run that name a tab.
FreshIds == {tabIdOf(n) : n \in (last.pre.counter + 1)..tabIdCounter} \cap DOMAIN tabs

\* C20: every id given to a newly created tab differs from every id a tab
\* of this process held before, those of closed tabs and of restored tabs
\* included, and from the ids given to the other tabs created with it.
C20_IdUniqueness ==
  /\ \A i \in 1..Len(CreatedIds) : CreatedIds[i] \notin held
  /\ NoDuplicates(CreatedIds)

\* createTab was called with the window alive.
CreateTabRan == last.h.op = "createTab" /\ last.pre.win = "live"

\* The id the call drew from the counter.
CreatedId == tabIdOf(last.pre.counter + 1)

\* C21: createTab called with no url, or with a url that fails the
\* secure-URL check, creates the tab at the recent-files address.
C21_DefaultAddress ==
  (CreateTabRan /\ (last.h.url = Undefined \/ ~Classified[last.h.url].isHttps)) =>
    /\ CreatedId \in DOMAIN tabs
    /\ tabs[CreatedId].url = FIGMA_RECENTS
    /\ last.fx.loads = <<<<CreatedId, FIGMA_RECENTS>>>>

\* The input fails the secure-URL parse.
Malformed(u) == ~Classified[u].isHttps

\* C22: an address that fails the secure-URL parse is never admitted as an
\* in-app destination: a popup request for it is not allowed and makes no
\* tab, a navigation to it is cancelled, it is not restorable; and the
\* handler that hands it to the external-open path changes no state.
C22_FailsClosed ==
  /\ \A u \in DOMAIN Classified : Malformed(u) => ~canRestoreUrl(u)
  /\ (last.h.op \in {"window-open", "will-navigate"} /\ Malformed(last.h.url)) =>
       /\ last.h.op = "window-open" => last.fx.ret = "deny"
       /\ last.h.op = "will-navigate" => last.fx.ret = "cancel"
       /\ TabStateUnchanged
       /\ tabIdCounter = last.pre.counter
       /\ popups = last.pre.popups
       /\ last.fx.loads = <<>>


\* The claim's reading of an auth URL, from the parts of the parsed address.
OnProviderList(host) ==
  \/ host \in {"accounts.google.com", "oauth2.googleapis.com", "apis.google.com"}
  \/ host = "google.com"
  \/ endsWith(host, ".google.com")
  \/ endsWith(host, ".googleusercontent.com")

OnTargetSite(host) == host = "figma.com" \/ endsWith(host, ".figma.com")

HasAuthPath(path) == \E p \in {"/login", "/signup", "/oauth"} : startsWith(path, p)

AuthByParts(parsed) ==
  /\ parsed.ok
  /\ parsed.protocol = "https:"
  /\ \/ OnProviderList(parsed.hostname)
     \/ OnTargetSite(parsed.hostname) /\ HasAuthPath(parsed.pathname)

\* The claim's conditions, for every address of the model.
AuthExpected == [u \in DOMAIN Classified |-> AuthByParts(parseUrl(u))]

\* C23: isOAuthUrl(u) is true exactly when u is https and its host is on the
\* identity-provider list (a fixed OAuth host, google.com or a subdomain, a
\* host ending in the relay suffix) or u is a target-site URL whose path
\* starts with /login, /signup or /oauth; an auth path on another host and
\* look-alike hosts are not auth.  Stated of every address the classifier is
\* applied to, and of the verdict a tab's popup request gets when its
\* destination is no placeholder and its referrer is no auth URL.
C23_AuthClassifier ==
  /\ \A u \in DOMAIN Classified : Classified[u].isOAuthUrl <=> AuthExpected[u]
  /\ \A u \in {U_EVIL_LOGIN, U_LOOKALIKE, U_SUFFIXED, U_USERINFO, U_HTTP} :
       ~Classified[u].isOAuthUrl
  /\ (/\ WindowOpenFrom({"tab"})
      /\ ~Classified[last.h.url].isAboutBlankUrl
      /\ ~AuthExpected[last.h.ref]) =>
       ((last.fx.ret = "allow") <=> AuthExpected[last.h.url])

C23_Witness ==
  /\ WindowOpenFrom({"tab"})
  /\ last.h.url = U_EVIL_LOGIN
  /\ last.h.ref = U_EVIL_LOGIN
  /\ last.fx.ret = "deny"
  /\ Classified[U_PORT].isOAuthUrl
  /\ Classified[U_RELAY].isOAuthUrl


\* Messages the last handler pushed to the shell on the two state channels.
StateMessages ==
  SelectSeq(last.fx.sent,
            LAMBDA msg : msg.channel \in {"tabs:stateChanged", "window:stateChanged"})

\* C24: no tab-state-changed or window-state-changed message is pushed
\* before the shell is ready or after the window has closed; the handler
\* that makes the shell ready pushes the layout message, then the full tab
\* snapshot, then the window state.
C24_ReadinessGating ==
  /\ StateMessages # <<>> => (mainWindow = "live" /\ shellReady)
  /\ (StateMessages # <<>> /\ last.h.op # "did-finish-load") =>
       (last.pre.win = "live" /\ last.pre.ready)
  /\ last.h.op = "did-finish-load" =>
       /\ ~last.pre.ready
       /\ Len(last.fx.sent) = 3
       /\ last.fx.sent[1].channel = "tabs:layout"
       /\ last.fx.sent[1].body.titlebarHeight = TITLEBAR_HEIGHT
       /\ last.fx.sent[2] = message("tabs:stateChanged",
                                    getTabsSnapshot(tabs, tabOrder, activeTabId))
       /\ last.fx.sent[3].channel = "window:stateChanged"

C24_Witness ==
  /\ last.h.op = "did-finish-load"
  /\ Len(tabOrder) = 2
  /\ Len(last.fx.sent) = 3


\* A snapshot names an active tab and marks exactly that tab active.
ActiveMarks(snapshot) == {i \in 1..Len(snapshot.tabs) : snapshot.tabs[i].isActive}

OneActive(snapshot) ==
  /\ snapshot.activeTabId # Null
  /\ Cardinality(ActiveMarks(snapshot)) = 1
  /\ \A i \in ActiveMarks(snapshot) : snapshot.tabs[i].id = snapshot.activeTabId

\* C25: after the startup restoration every snapshot the shell receives, as
\* the reply to a bridge command (the snapshot of the state the command
\* leaves, and the reply to tabs:list in any state with the shell alive) or
\* in a tabs:stateChanged message, has a non-null activeTabId and exactly
\* one tab with isActive, the tab whose id is activeTabId.
C25_ActiveIdObservable ==
  /\ ShellAlive => OneActive(getTabsSnapshot(tabs, tabOrder, activeTabId))
  /\ \A i \in 1..Len(last.fx.sent) :
       last.fx.sent[i].channel = "tabs:stateChanged" => OneActive(last.fx.sent[i].body)

\* C26: in every reachable state the url recorded for every tab of the
\* collection is an absolute https URL, whatever the containers report in
\* their did-navigate, did-navigate-in-page and did-stop-loading events.
C26_TabUrlHttps ==
  \A id \in DOMAIN tabs : Classified[tabs[id].url].isHttps

\* The ids the last handler passed to addChildView, in call order.
AddedViews ==
  LET adds == SelectSeq(last.fx.views, LAMBDA call : call[1] = "add")
  IN [i \in 1..Len(adds) |-> adds[i][2]]

\* C27: with a live window createTab adds exactly one tab, at the end of the
\* order; the new tab becomes the active tab exactly when `activate` is true
\* or no tab was active before the call, and with `activate` false and a tab
\* active the active id is unchanged; a restoration that starts with no
\* active tab therefore activates the first restored tab first, and after it
\* only the tab that ends up active.
C27_ActivationRule ==
  /\ CreateTabRan =>
       /\ tabOrder = Append(last.pre.order, CreatedId)
       /\ CreatedId \notin DOMAIN last.pre.tabs
       /\ DOMAIN tabs = DOMAIN last.pre.tabs \cup {CreatedId}
       /\ \A id \in DOMAIN last.pre.tabs : tabs[id] = last.pre.tabs[id]
       /\ (activeTabId = CreatedId) <=>
            (last.h.ref = "activate" \/ ~truthy(last.pre.active))
       /\ (last.h.ref = "background" /\ truthy(last.pre.active)) =>
            activeTabId = last.pre.active
  /\ (RestoreRan /\ ~truthy(last.pre.active) /\ Len(Restorable(disk)) > 0) =>
       /\ AddedViews # <<>>
       /\ AddedViews[1] = SavedIds(disk)[1]
       /\ \A i \in 2..Len(AddedViews) : AddedViews[i] = activeTabId

C27_Witness ==
  /\ CreateTabRan
  /\ last.h.ref = "background"
  /\ disk # NoFile
  /\ last.pre.active = "tab-2"
  /\ activeTabId = "tab-2"
  /\ tabOrder = <<"tab-1", "tab-2", "tab-3">>


\* activateTab(id) ran through the bridge on a tab that has a record.
ActivateMemberRan ==
  /\ last.h.op = "tabs:activate"
  /\ last.pre.win = "live"
  /\ last.h.id \in DOMAIN last.pre.tabs

\* C28: with a live window and a non-empty collection exactly one container
\* is attached to the window, the active tab's; activateTab on another
\* member detaches the previous container and attaches the target's;
\* activateTab on the active id changes neither the attachment nor the
\* collection and triggers no broadcast and no persistence write.
C28_SingleAttached ==
  /\ (mainWindow = "live" /\ tabOrder # <<>>) =>
       /\ activeTabId \in DOMAIN tabs
       /\ viewState.children = <<activeTabId>>
  /\ (ActivateMemberRan /\ last.h.id # last.pre.active) =>
       /\ last.fx.views = << <<"remove", last.pre.active>>, <<"add", last.h.id>> >>
       /\ viewState.children = <<last.h.id>>
  /\ (ActivateMemberRan /\ last.h.id = last.pre.active) =>
       /\ viewState.children = last.pre.view.children
       /\ TabStateUnchanged
       /\ last.fx.views = <<>>
       /\ last.fx.emits = 0
       /\ last.fx.armed = 0
       /\ timerArmed = last.pre.timer

\* C29: at most one persistence timer is pending; every state-affecting
\* change cancels the pending timer and arms a new one; a burst of changes
\* produces exactly one write, holding the state as it is when the timer
\* fires: a pending timer goes away only by firing, the firing timer writes
\* the current state and leaves no timer pending.
C29_DebounceCoalescing ==
  /\ pendingTimers <= 1
  /\ timerArmed <=> pendingTimers = 1
  /\ last.fx.armed > 0 => (timerArmed /\ pendingTimers = 1)
  /\ last.h.op \in {"page-title-updated", "tabs:create"} => last.fx.armed > 0
  /\ last.h.op = "timer" =>
       /\ last.pre.timer
       /\ ~timerArmed
       /\ last.fx.ret = "written" => disk = payload(Cur)
  /\ (last.pre.timer /\ ~timerArmed) => last.h.op = "timer"

\* The bounds the claim gives the active container for a content size.
SettledBounds(width, height) ==
  [x |-> 0, y |-> 36, width |-> width, height |-> IF height > 36 THEN height - 36 ELSE 0]

\* C30: after every geometry event of the window and after its deferred
\* re-layout the bounds of the container active at that moment are x = 0,
\* y = title-strip height, width = content width, height = max(0, content
\* height - title-strip height), also when the active tab changed between
\* the event and the re-layout; the height is never negative.
C30_LayoutSettle ==
  /\ (/\ last.h.op \in {"resize", "tick"}
      /\ mainWindow = "live"
      /\ activeTabId \in DOMAIN tabs) =>
       /\ activeTabId \in DOMAIN viewState.bounds
       /\ viewState.bounds[activeTabId] = SettledBounds(viewState.size[1], viewState.size[2])
  /\ \A id \in DOMAIN viewState.bounds : viewState.bounds[id].height >= 0

\* The re-layout ran for a small window after the active tab had changed.
C30_Witness ==
  /\ last.h.op = "tick"
  /\ mainWindow = "live"
  /\ viewState.size = <<200, 20>>
  /\ Head(last.pre.view.ticks) # activeTabId
  /\ Head(last.pre.view.ticks) \in DOMAIN tabs
  /\ activeTabId \in DOMAIN tabs
  /\ viewState.bounds[activeTabId].height = 0


\* The entries of an order whose id is in `ids`, in their order.
Kept(order, ids) == SelectSeq(order, LAMBDA id : id \in ids)

\* createTab ran once with the window alive: New Tab, or a redirected popup.
OneTabCreated ==
  /\ last.pre.win = "live"
  /\ \/ last.h.op = "tabs:create"
     \/ last.h.op = "shortcut" /\ last.h.url = "t"
     \/ last.h.op = "window-open" /\ tabIdCounter # last.pre.counter

\* C31: createTab appends the new id at the right end of the order; closeTab
\* removes the closed id and nothing else (the replacement of the last tab
\* aside); activateTab, cycleTabs and navigate leave the order as it is;
\* hence two tabs that both remain keep their relative order.
C31_OrderPreserved ==
  /\ OneTabCreated => tabOrder = Append(last.pre.order, tabIdOf(last.pre.counter + 1))
  /\ (CloseTabRan /\ last.pre.win = "live" /\ ClosedId \in DOMAIN last.pre.tabs) =>
       tabOrder = IF without(last.pre.order, ClosedId) = <<>>
                    THEN <<tabIdOf(last.pre.counter + 1)>>
                  ELSE without(last.pre.order, ClosedId)
  /\ (CycleRan \/ last.h.op \in {"tabs:activate", "tabs:navigate"}) =>
       tabOrder = last.pre.order
  /\ last.h.op # "launch" =>
       Kept(last.pre.order, Range(tabOrder)) = Kept(tabOrder, Range(last.pre.order))


\* C32: in every reachable state the order holds no id twice and the set of
\* its ids is the key set of the id->Tab map, also after a snapshot file that
\* repeats an id and after a second restoration on re-activation.
C32_OrderMapConsistent ==
  /\ NoDuplicates(tabOrder)
  /\ Range(tabOrder) = DOMAIN tabs


\* C33, on one step: a handler that runs while close commands are pending
\* creates no tab with the id of one of them; a delayed close command
\* removes no tab other than the one of its id; no id has had more than one
\* close command.
DelayedCloseStep ==
  /\ last' # last =>
       \A tabId \in renderer.closeTimers : tabId \notin Range(CreatedIds')
  /\ (last' # last /\ last'.h.origin = "delayed") =>
       /\ last'.h.id \in renderer.closeTimers
       /\ DOMAIN tabs \ {last'.h.id} \subseteq DOMAIN tabs'
  /\ \A tabId \in DOMAIN renderer'.closeSent : renderer'.closeSent[tabId] <= 1

\* C33: the shell page sends at most one close command per tab id, after
\* the close animation; however the command interleaves with the close
\* shortcut, the replacement of the last tab and new tabs, it removes at most
\* the tab that had the id when the close was requested, never a tab
\* created since.
C33_DelayedCloseOwnTab == [][DelayedCloseStep]_vars

\* A delayed close arrives after the shortcut closed its tab, the last one,
\* and the replacement tab stays.
C33_Witness ==
  /\ last.h.origin = "delayed"
  /\ last.h.id \in held
  /\ last.h.id \notin DOMAIN last.pre.tabs
  /\ Len(last.pre.order) = 1
  /\ tabs = last.pre.tabs
  /\ tabOrder = last.pre.order

====
